---- MODULE Spec2Model ----
(***************************************************************************)
(* The chat streaming session of nl-to-sql-agent's frontend: the shared    *)
(* chat store (ChatContext.tsx: chatReducer and the ChatProvider           *)
(* callbacks) and the fetch based controller (useChatController.ts:        *)
(* sendMessage, its read/decode loop, handleStreamEvent, stopStreaming).   *)
(*                                                                         *)
(* JavaScript runs every callback to completion, so each action below is   *)
(* one callback or one continuation of the async sendMessage between two   *)
(* awaits.  The response text is a sequence of tokens: the data marker,    *)
(* a space, a newline, one token per JSON document, and junk.              *)
(***************************************************************************)
EXTENDS Integers, Sequences, FiniteSets, Bags, TLC

\* ------------------------------------------------------------------ bounds
MaxTurns == 2    \* sendMessage calls that pass the empty-question check
MaxSize  == 2    \* history length plus the longest step list of any turn
MaxRecords == 3  \* records in a response body that is delivered piecewise
MaxPending == 2  \* pending backoff timers; sendQuestion requests in flight

\* ------------------------------------------------------------ vocabulary
None == "none"                    \* an absent optional field (undefined / null)

StepNumbers == {1, 2}             \* step_number values the producer uses
Obs       == {"rows"}             \* observation payloads
Answers   == {"USA"}              \* final_answer payloads
Questions == {"", " ", "Q"}       \* inputs of sendMessage; two of them blank

\* Variant: the question is not trimmed.
trimQuestion_noTrim(q) == q

\* String.prototype.trim() of a question: the blank ones trim to "".
trimQuestion(q) == IF q \in {"", " "} THEN "" ELSE q

DefaultErrorText == "An error occurred during processing"
EmptyQuestionText == "Question cannot be empty"
HttpErrorText == "HTTP error! status"
NetworkErrorText == "network error"

\* A ChatStreamEvent after JSON.parse; fields a variant lacks are None / 0.
Event(t, n, o, a, m) ==
  [type |-> t, step_number |-> n, observation |-> o, final_answer |-> a, message |-> m]

Events ==
     {Event("execution_start", 0, None, None, None)}
  \cup {Event("agent_action", n, None, None, None) : n \in StepNumbers}
  \cup {Event("agent_observation", n, o, None, None) : n \in StepNumbers, o \in Obs}
  \cup {Event("agent_finish", 0, None, a, None) : a \in Answers}
  \cup {Event("execution_summary", 0, None, None, None)}
  \cup {Event("execution_complete", 0, None, None, None)}
  \cup {Event("heartbeat", 0, None, None, None)}
  \cup {Event("error", 0, None, None, "boom")}

NoEvent == Event(None, 0, None, None, None)

\* ----------------------------------------------------------- chat store
ReActStep(n) == [step_number |-> n, observation |-> None]

\* currentMessage: null is the turn with id 0; generateMessageId never yields it.
NoMessage ==
  [id |-> 0, question |-> None, steps |-> <<>>, status |-> None,
   answer |-> None, error_message |-> None]

initialState ==
  [messages |-> <<>>, currentMessage |-> NoMessage, isStreaming |-> FALSE, error |-> None]

START_STREAMING(state, question, messageId) ==
  LET newMessage == [id |-> messageId, question |-> question, steps |-> <<>>,
                     status |-> "thinking", answer |-> None, error_message |-> None]
  IN  [state EXCEPT !.currentMessage = newMessage, !.isStreaming = TRUE, !.error = None]

STOP_STREAMING(state) == [state EXCEPT !.isStreaming = FALSE]

ADD_STEP(state, step) ==
  IF state.currentMessage = NoMessage THEN state
  ELSE [state EXCEPT !.currentMessage.steps = Append(@, step),
                     !.currentMessage.status = "processing"]

\* Variant: an observation also moves the turn to processing.
UPDATE_STEP_touchStatus(state, stepNumber, observation) ==
  IF state.currentMessage = NoMessage THEN state
  ELSE [state EXCEPT !.currentMessage.status = "processing",
                     !.currentMessage.steps =
                       [i \in 1..Len(@) |->
                          IF @[i].step_number = stepNumber
                            THEN [@[i] EXCEPT !.observation = observation]
                            ELSE @[i]]]

\* Variant: the observation lands on every step, whatever its number.
UPDATE_STEP_everyStep(state, stepNumber, observation) ==
  IF state.currentMessage = NoMessage THEN state
  ELSE [state EXCEPT !.currentMessage.steps =
          [i \in 1..Len(@) |-> [@[i] EXCEPT !.observation = observation]]]

\* Variant: an observation already on the step is merged with the new one
\* instead of being replaced by it.
UPDATE_STEP_merge(state, stepNumber, observation) ==
  IF state.currentMessage = NoMessage THEN state
  ELSE [state EXCEPT !.currentMessage.steps =
          [i \in 1..Len(@) |->
             IF @[i].step_number = stepNumber
               THEN [@[i] EXCEPT !.observation =
                       IF @ = None THEN observation ELSE "merged"]
               ELSE @[i]]]

UPDATE_STEP(state, stepNumber, observation) ==
  IF state.currentMessage = NoMessage THEN state
  ELSE LET steps == state.currentMessage.steps
           updatedSteps ==
             [i \in 1..Len(steps) |->
                IF steps[i].step_number = stepNumber
                  THEN [steps[i] EXCEPT !.observation = observation]
                  ELSE steps[i]]
       IN  [state EXCEPT !.currentMessage.steps = updatedSteps]

\* Variant: the completed turn is not appended to the history.
SET_FINAL_ANSWER_noAppend(state, answer) ==
  IF state.currentMessage = NoMessage THEN state
  ELSE [state EXCEPT !.currentMessage.answer = answer,
                     !.currentMessage.status = "completed",
                     !.isStreaming = FALSE]

SET_FINAL_ANSWER(state, answer) ==
  IF state.currentMessage = NoMessage THEN state
  ELSE LET completedMessage ==
             [state.currentMessage EXCEPT !.answer = answer, !.status = "completed"]
       IN  [state EXCEPT !.currentMessage = completedMessage,
                         !.messages = Append(@, completedMessage),
                         !.isStreaming = FALSE]

\* Variant: only the top-level error and the streaming flag are set.
SET_ERROR_flagOnly(state, err) == [state EXCEPT !.error = err, !.isStreaming = FALSE]

\* Variant: the updated turn is appended also when there is none.
SET_ERROR_appendNull(state, err) ==
  LET updatedMessage ==
        IF state.currentMessage = NoMessage THEN NoMessage
        ELSE [state.currentMessage EXCEPT !.status = "error", !.error_message = err]
  IN  [state EXCEPT !.currentMessage = updatedMessage,
                    !.error = err,
                    !.isStreaming = FALSE,
                    !.messages = Append(@, updatedMessage)]

\* Variant: the failed turn replaces the history instead of joining it.
SET_ERROR_restart(state, err) ==
  LET updatedMessage ==
        IF state.currentMessage = NoMessage THEN NoMessage
        ELSE [state.currentMessage EXCEPT !.status = "error", !.error_message = err]
  IN  [state EXCEPT !.currentMessage = updatedMessage,
                    !.error = err,
                    !.isStreaming = FALSE,
                    !.messages = IF updatedMessage = NoMessage THEN @
                                 ELSE <<updatedMessage>>]

SET_ERROR(state, err) ==
  LET updatedMessage ==
        IF state.currentMessage = NoMessage THEN NoMessage
        ELSE [state.currentMessage EXCEPT !.status = "error", !.error_message = err]
  IN  [state EXCEPT !.currentMessage = updatedMessage,
                    !.error = err,
                    !.isStreaming = FALSE,
                    !.messages = IF updatedMessage = NoMessage THEN @
                                 ELSE Append(@, updatedMessage)]

CLEAR_ERROR(state) == [state EXCEPT !.error = None]

CLEAR_MESSAGES(state) == initialState

\* Variant: the turn is marked completed before it is cleared from view.
COMPLETE_MESSAGE_markCompleted(state) ==
  IF state.currentMessage = NoMessage THEN state
  ELSE [state EXCEPT !.currentMessage.status = "completed", !.isStreaming = FALSE]

\* Variant: only the streaming flag is cleared.
COMPLETE_MESSAGE_flagOnly(state) ==
  IF state.currentMessage = NoMessage THEN state
  ELSE [state EXCEPT !.isStreaming = FALSE]

COMPLETE_MESSAGE(state) ==
  IF state.currentMessage = NoMessage THEN state
  ELSE [state EXCEPT !.currentMessage = NoMessage, !.isStreaming = FALSE]

\* ----------------------------------------------------------- controller
\* handleStreamEvent: one decoded event, funnelled into the store.
handleStreamEvent(state, event) ==
  CASE event.type = "execution_start"    -> CLEAR_ERROR(state)
    [] event.type = "agent_action"       -> ADD_STEP(state, ReActStep(event.step_number))
    [] event.type = "agent_observation"  ->
         UPDATE_STEP(state, event.step_number, event.observation)
    [] event.type = "agent_finish"       -> SET_FINAL_ANSWER(state, event.final_answer)
    [] event.type = "execution_summary"  -> state
    [] event.type = "execution_complete" -> COMPLETE_MESSAGE(state)
    [] event.type = "heartbeat"          -> state
    [] event.type = "error"              ->
         SET_ERROR(state, IF event.message = None THEN DefaultErrorText ELSE event.message)
    [] OTHER                             -> state

\* ------------------------------------------------- response text, decoder
Tok(k, ev) == [k |-> k, ev |-> ev]
DATA    == Tok("data:", NoEvent)     \* the five characters "data:"
SP      == Tok(" ", NoEvent)
NL      == Tok("\n", NoEvent)
JUNK    == Tok("{oops", NoEvent)     \* text JSON.parse rejects
COMMENT == Tok(": ping", NoEvent)    \* a line that is not a data line
Json(ev) == Tok("json", ev)          \* JSON.stringify(ev)

Frame(payload) == <<DATA, SP, payload, NL, NL>>
ValidFrames     == {Frame(Json(ev)) : ev \in Events}
MalformedFrames == {Frame(JUNK), <<DATA, NL, NL>>}
CommentFrames   == {<<COMMENT, NL, NL>>}
Chunks == ValidFrames \cup MalformedFrames \cup CommentFrames

\* Index of the first "\n\n" in text, 0 when there is none.
FirstSep(text) ==
  LET hits == {i \in 1..(Len(text) - 1) : text[i] = NL /\ text[i + 1] = NL}
  IN  IF hits = {} THEN 0 ELSE CHOOSE i \in hits : \A j \in hits : i <= j

\* accumulatedData.split('\n\n')
RECURSIVE split(_)
split(text) ==
  LET i == FirstSep(text)
  IN  IF i = 0 THEN <<text>>
      ELSE <<SubSeq(text, 1, i - 1)>> \o split(SubSeq(text, i + 2, Len(text)))

startsWithData(eventString) == Len(eventString) >= 1 /\ eventString[1] = DATA

IsSpace(t) == t \in {SP, NL}

\* String.prototype.trim()
RECURSIVE trim(_)
trim(text) ==
  IF text = <<>> THEN text
  ELSE IF IsSpace(Head(text)) THEN trim(Tail(text))
  ELSE IF IsSpace(text[Len(text)]) THEN trim(SubSeq(text, 1, Len(text) - 1))
  ELSE text

\* JSON.parse: a value, or a SyntaxError.
JSONparse(jsonString) ==
  IF Len(jsonString) = 1 /\ jsonString[1].k = "json"
    THEN [ok |-> TRUE, ev |-> jsonString[1].ev]
    ELSE [ok |-> FALSE, ev |-> NoEvent]

\* What the decode loop makes of one record: "skip" (no data marker),
\* "bad" (JSON.parse threw) or "ok" with the event.
decodeRecord(eventString) ==
  IF ~startsWithData(eventString) THEN [kind |-> "skip", ev |-> NoEvent]
  ELSE LET p == JSONparse(trim(Tail(eventString)))
       IN  IF p.ok THEN [kind |-> "ok", ev |-> p.ev] ELSE [kind |-> "bad", ev |-> NoEvent]

\* Variant: the exception is not caught here.
innerCatch_rethrow(r) == r

\* catch (e) { console.error(...) } around JSON.parse and handleStreamEvent:
\* the exception stops here.  r is the loop's [state, threw].
innerCatch(r) == [r EXCEPT !.threw = FALSE]

\* The body of `for (const eventString of events)`; once an exception has
\* escaped, the rest of the loop does not run.
processRecord(r, eventString) ==
  IF r.threw THEN r
  ELSE LET d == decodeRecord(eventString)
       IN  CASE d.kind = "skip" -> r
             [] d.kind = "ok"   -> [r EXCEPT !.state = handleStreamEvent(r.state, d.ev)]
             [] d.kind = "bad"  -> innerCatch([r EXCEPT !.threw = TRUE])

RECURSIVE processRecords(_, _)
processRecords(r, events) ==
  IF events = <<>> THEN r
  ELSE processRecords(processRecord(r, Head(events)), Tail(events))

\* catch (error) of sendMessage: the failure becomes an error event.
outerCatch(state, errorMessage) ==
  handleStreamEvent(state, Event("error", 0, None, None, errorMessage))

\* Variant: the piece after the last separator is not kept.
readLoopStep_dropTail(state, buf, chunk) ==
  LET pieces == split(buf \o chunk)
      events == SubSeq(pieces, 1, Len(pieces) - 1)
      r      == processRecords([state |-> state, threw |-> FALSE], events)
  IN  [state |-> IF r.threw THEN outerCatch(r.state, "SyntaxError") ELSE r.state,
       buf   |-> <<>>,
       open  |-> ~r.threw]

\* One turn of the while loop after reader.read() gave a chunk: accumulate,
\* split, keep the last piece as the new buffer, decode and apply the rest.
readLoopStep(state, buf, chunk) ==
  LET pieces == split(buf \o chunk)
      events == SubSeq(pieces, 1, Len(pieces) - 1)
      r      == processRecords([state |-> state, threw |-> FALSE], events)
  IN  [state |-> IF r.threw THEN outerCatch(r.state, "SyntaxError") ELSE r.state,
       buf   |-> pieces[Len(pieces)],
       open  |-> ~r.threw]

\* ---------------------------------------------------------------- state
VARIABLES
  state,     \* the ChatState held by useReducer(chatReducer, initialState)
  nextId,    \* generateMessageId: the next fresh message id
  streams,   \* the sendMessage calls still running: a bag of [pc, buf]
  mon,       \* observers of the run (history, not program state)
  svc,       \* the StreamingService singleton and the controller built on it
  wire       \* a response text and how much of it the reader has delivered

vars == <<state, nextId, streams, mon, svc, wire>>

\* A running sendMessage: awaiting fetch ("fetching") or inside the read
\* loop awaiting reader.read() ("reading") with accumulatedData = buf.
Stream(pc, buf) == [pc |-> pc, buf |-> buf]
One(st) == SetToBag({st})

\* ------------------------------------------------- StreamingService state
\* The fields of the StreamingService (services/eventSource.ts):
\*  es: this.eventSource with its readyState: "none" (null), "connecting",
\*      "open" or "closed" (the browser gave the connection up);
\*  reconnectAttempts, currentQuestion, hasCallbacks (onEventCallback and
\*  onStatusChangeCallback are set);
\*  armed: the timer this.reconnectTimeout refers to is still pending;
\*  stale: pending timers that no field refers to any more;
\*  delay: the delay given to the last setTimeout;
\*  posts: the sendQuestion requests in flight, by who awaits them: the
\*      controller's sendMessage ("send") or reconnect ("re");
\* and of the controller built on it: currentStepsRef (the step numbers in
\* the Map).  retries and protoErr are history: the reconnection attempts
\* scheduled since the last sendMessage, and whether an error event of the
\* producer has arrived since then.
svcInit ==
  [es |-> "none", reconnectAttempts |-> 0, currentQuestion |-> None,
   hasCallbacks |-> FALSE, armed |-> FALSE, stale |-> 0, delay |-> 0,
   posts |-> [send |-> 0, re |-> 0], currentStepsRef |-> {},
   retries |-> 0, protoErr |-> FALSE]

maxReconnectAttempts == 3
BaseDelayMs == 1000
CapDelayMs == 10000

ConnectionErrorText == "Connection error occurred"
RetriesExhaustedText == "Connection failed after maximum retry attempts"
ReconnectionFailedText == "Reconnection failed"
ParseFailedText == "Failed to parse server message"
StreamErrorText == "Stream error occurred"
HttpStatusText == "HTTP 500"

Min(a, b) == IF a <= b THEN a ELSE b

\* Variant: the delay grows by one base unit per attempt.
backoffDelay_linear(n) == Min(BaseDelayMs * n, CapDelayMs)

\* Math.min(1000 * Math.pow(2, reconnectAttempts - 1), 10000)
backoffDelay(n) == Min(BaseDelayMs * 2 ^ (n - 1), CapDelayMs)

\* The operators below work on sys = [state, svc]: the chat store and the
\* service, as one callback of the service changes both.

\* The controller's handleStatusChange (hooks/useChatController.ts of the
\* EventSource build): only the status 'error' reaches the store.
handleStatusChange(sys, status, error) ==
  IF status = "error"
    THEN [sys EXCEPT !.state = SET_ERROR(@, IF error = None THEN ConnectionErrorText
                                                              ELSE error)]
    ELSE sys

notifyStatusChange(sys, status, error) ==
  IF sys.svc.hasCallbacks THEN handleStatusChange(sys, status, error) ELSE sys

\* The controller's handleStreamEvent of the EventSource build, with its
\* currentStepsRef Map; event.message stands for event.error?.message.
handleStreamEvent_es(sys, event) ==
  CASE event.type = "execution_start" -> [sys EXCEPT !.state = CLEAR_ERROR(@)]
    [] event.type = "agent_action" ->
         [sys EXCEPT !.svc.currentStepsRef = @ \cup {event.step_number},
                     !.state = ADD_STEP(@, ReActStep(event.step_number))]
    [] event.type = "agent_observation" ->
         IF event.step_number \in sys.svc.currentStepsRef
           THEN [sys EXCEPT !.state = UPDATE_STEP(@, event.step_number, event.observation)]
           ELSE sys
    [] event.type = "agent_finish" ->
         [sys EXCEPT !.state = SET_FINAL_ANSWER(@, event.final_answer)]
    [] event.type = "execution_summary" -> sys
    [] event.type = "execution_complete" ->
         [sys EXCEPT !.state = COMPLETE_MESSAGE(@), !.svc.currentStepsRef = {}]
    [] event.type = "heartbeat" -> sys
    [] event.type = "error" ->
         [sys EXCEPT !.state = SET_ERROR(@, IF event.message = None THEN DefaultErrorText
                                                                    ELSE event.message),
                     !.svc.currentStepsRef = {}]
    [] OTHER -> sys

notifyError(sys, message) ==
  IF sys.svc.hasCallbacks
    THEN handleStreamEvent_es(sys, Event("error", 0, None, None, message))
    ELSE sys

clearReconnectTimeout(sys) == [sys EXCEPT !.svc.armed = FALSE]

closeExistingConnection(sys) == [sys EXCEPT !.svc.es = "none"]

closeConnection(sys) ==
  LET s1 == closeExistingConnection(clearReconnectTimeout(sys))
      s2 == notifyStatusChange(s1, "disconnected", None)
  IN  [s2 EXCEPT !.svc.currentQuestion = None]

\* StreamingService.handleStreamEvent: one parsed message of the producer.
svcHandleStreamEvent(sys, event) ==
  LET s1 == IF sys.svc.hasCallbacks THEN handleStreamEvent_es(sys, event) ELSE sys
      s2 == IF event.type = "execution_complete" THEN closeConnection(s1) ELSE s1
      s3 == IF event.type = "error"
              THEN notifyError([s2 EXCEPT !.svc.protoErr = TRUE],
                               IF event.message = None THEN StreamErrorText
                                                       ELSE event.message)
              ELSE s2
  IN  s3

\* eventSource.onopen
onopen(sys) ==
  [notifyStatusChange(sys, "connected", None) EXCEPT !.svc.reconnectAttempts = 0]

\* eventSource.onmessage with event.data = data, one token.
onmessage(sys, data) ==
  LET p == JSONparse(<<data>>)
  IN  IF p.ok
        THEN [svcHandleStreamEvent(sys, p.ev) EXCEPT !.svc.reconnectAttempts = 0]
        ELSE notifyError(sys, ParseFailedText)

\* handleConnectionError, called by eventSource.onerror.  A timer set while
\* the one in reconnectTimeout is pending leaves that one unreferenced.
handleConnectionError(sys) ==
  IF sys.svc.reconnectAttempts < maxReconnectAttempts
    THEN LET n  == sys.svc.reconnectAttempts + 1
             s1 == [sys EXCEPT !.svc.reconnectAttempts = n]
             s2 == notifyStatusChange(s1, "connecting", "Reconnecting...")
         IN  [s2 EXCEPT !.svc.delay = backoffDelay(n),
                        !.svc.stale = @ + (IF sys.svc.armed THEN 1 ELSE 0),
                        !.svc.armed = TRUE,
                        !.svc.retries = Min(@ + 1, maxReconnectAttempts + 1)]
    ELSE notifyStatusChange(sys, "error", RetriesExhaustedText)

\* startStream up to `await this.sendQuestion(question)`; who says whether
\* sendMessage ("send") or reconnect ("re") awaits it.
startStream(sys, question, who) ==
  LET s1 == [sys EXCEPT !.svc.hasCallbacks = TRUE, !.svc.currentQuestion = question]
      s2 == notifyStatusChange(closeExistingConnection(s1), "connecting", None)
  IN  [s2 EXCEPT !.svc.es = "connecting", !.svc.posts[who] = @ + 1]

\* reconnect, as far as its await.
reconnect(sys) ==
  IF sys.svc.currentQuestion = None \/ ~sys.svc.hasCallbacks THEN sys
  ELSE startStream(sys, sys.svc.currentQuestion, "re")

\* The callback given to setTimeout in handleConnectionError.
timerCallback(sys) ==
  IF sys.svc.currentQuestion # None THEN reconnect(sys) ELSE sys

\* sendQuestion failed: the catch of startStream, then the catch of the
\* caller that awaited it.
startStreamFailed(sys, who, errorMessage) ==
  LET s1 == notifyStatusChange(sys, "error", errorMessage)
  IN  IF who = "send"
        THEN [s1 EXCEPT !.state = SET_ERROR(@, errorMessage)]
        ELSE notifyStatusChange(s1, "error", ReconnectionFailedText)

\* ---------------------------------------------------------- response text
\* text: the whole body of one response; pos: the tokens of it the reader
\* has delivered so far; handed: the events the decode loop has passed to
\* handleStreamEvent, in order (history); sepCut: some chunk ended between
\* the two newlines of a separator (history).
wireInit(text) == [text |-> text, pos |-> 0, handed |-> <<>>, sepCut |-> FALSE]

\* The records a producer writes, and the bodies made of up to MaxRecords.
WireFrames ==
  {Frame(Json(Event("agent_action", 1, None, None, None))),
   Frame(Json(Event("agent_observation", 1, "rows", None, None))),
   Frame(Json(Event("heartbeat", 0, None, None, None))),
   Frame(JUNK),
   <<COMMENT, NL, NL>>}

RECURSIVE Bodies(_)
Bodies(n) ==
  IF n = 0 THEN {<<>>}
  ELSE Bodies(n - 1) \cup {b \o f : b \in Bodies(n - 1), f \in WireFrames}

\* The events one pass of the for loop hands to handleStreamEvent; threw
\* says an exception has left the loop.
RECURSIVE handedBy(_, _)
handedBy(threw, events) ==
  IF events = <<>> \/ threw THEN <<>>
  ELSE LET d == decodeRecord(Head(events))
           t == d.kind = "bad" /\ innerCatch([state |-> initialState, threw |-> TRUE]).threw
       IN  (IF d.kind = "ok" THEN <<d.ev>> ELSE <<>>) \o handedBy(t, Tail(events))

\* -------------------------------------------------------------- observers
\* One family of observers runs per specification (mon.mode):
\*  "turn": acts, the step numbers of the agent_action events applied to the
\*          current turn; obsd, those of the agent_observation events applied
\*          to it; obsAfter, those of them applied after their action;
\*  "scen": phase, the progress of the store's operations since the last
\*          submit along execution_start, (agent_action agent_observation)+,
\*          agent_finish, execution_complete; baseLen, the history length
\*          at that submit;
\*  "dec":  shadow, the store as it is when only the well-formed records are
\*          applied; aborted, a read loop was ended by an exception; seen,
\*          the decode outcomes since the last submit while one call runs:
\*          1 valid, 2 valid-malformed, 3 valid-malformed-valid;
\*  "stop": stopped, stopStreaming was called while requests were running
\*          and no request has been started since.
monInit(mode) ==
  [mode |-> mode, acts |-> <<>>, obsd |-> {}, obsAfter |-> {},
   phase |-> "off", baseLen |-> 0,
   shadow |-> initialState, aborted |-> FALSE, seen |-> 0,
   stopped |-> FALSE, ownPending |-> FALSE]

Range(f) == {f[i] : i \in DOMAIN f}

monPhase(m, ev) ==
  CASE m.phase = "submitted" /\ ev.type = "execution_start" -> "started"
    [] m.phase \in {"started", "paired"} /\ ev.type = "agent_action"
         /\ ev.step_number \notin Range(m.acts) -> "open"
    [] m.phase = "open" /\ ev.type = "agent_observation"
         /\ ev.step_number = m.acts[Len(m.acts)] -> "paired"
    [] m.phase = "paired" /\ ev.type = "agent_finish" -> "finished"
    [] m.phase = "finished" /\ ev.type = "execution_complete" -> "done"
    [] OTHER -> "off"

\* After an accepted sendMessage in store state s (before START_STREAMING).
monSubmit(m, s, F(_)) ==
  CASE m.mode = "turn" -> [m EXCEPT !.acts = <<>>, !.obsd = {}, !.obsAfter = {}]
    [] m.mode = "scen" -> [m EXCEPT !.acts = <<>>, !.phase = "submitted",
                                    !.baseLen = Len(s.messages)]
    [] m.mode = "dec"  -> [m EXCEPT !.shadow = F(@), !.seen = 0]
    [] m.mode = "stop" -> [m EXCEPT !.stopped = FALSE]
    [] m.mode = "attr" -> [m EXCEPT !.ownPending = TRUE]
    [] OTHER -> m

\* After an await fetch(...) settled. While ownPending holds, the fetch of
\* the latest accepted sendMessage has not settled, so no record decoded so
\* far or now comes from that sendMessage's response.
monFetched(m) ==
  IF m.mode = "attr" THEN [m EXCEPT !.ownPending = FALSE] ELSE m

\* After stopStreaming was called while `running` requests were running.
monStop(m, running) ==
  IF m.mode = "stop" THEN [m EXCEPT !.stopped = running > 0] ELSE m

\* The turn observers are kept only while a turn is current, and the step
\* numbers of the scenario only while the scenario is on.
monTidy(m, s2) ==
  CASE m.mode = "turn" /\ s2.currentMessage = NoMessage ->
         [m EXCEPT !.acts = <<>>, !.obsd = {}, !.obsAfter = {}]
    [] m.mode = "scen" /\ m.phase = "off" -> [m EXCEPT !.acts = <<>>]
    [] OTHER -> m

\* After a store operation F that is no decoded event (a caller's operation
\* or a transport failure), applied in store state s.
monOther(m, s, F(_)) ==
  CASE m.mode = "scen" -> monTidy([m EXCEPT !.phase = "off"], F(s))
    [] m.mode = "dec"  -> [m EXCEPT !.shadow = F(@)]
    [] OTHER -> monTidy(m, F(s))

\* After decoded event ev is applied in store state s.
monEvent(m, s, ev) ==
  LET live == s.currentMessage # NoMessage
      n    == ev.step_number
      isAct == ev.type = "agent_action"
      isObs == ev.type = "agent_observation"
      m1 == CASE m.mode = "turn" ->
                   [m EXCEPT !.acts = IF live /\ isAct THEN Append(@, n) ELSE @,
                             !.obsd = IF live /\ isObs THEN @ \cup {n} ELSE @,
                             !.obsAfter = IF live /\ isObs /\ n \in Range(m.acts)
                                            THEN @ \cup {n} ELSE @]
              [] m.mode = "scen" ->
                   [m EXCEPT !.acts = IF isAct THEN Append(@, n) ELSE @,
                             !.phase = monPhase(m, ev)]
              [] m.mode = "dec" -> [m EXCEPT !.shadow = handleStreamEvent(@, ev)]
              [] OTHER -> m
  IN  monTidy(m1, handleStreamEvent(s, ev))

seenNext(seen, kind) ==
  CASE kind = "ok"  -> IF seen = 2 THEN 3 ELSE 1
    [] kind = "bad" -> IF seen \in {1, 2, 3} THEN 2 ELSE 0
    [] OTHER        -> seen

\* After the decode loop met one record in store state s; alone says
\* whether this read loop is the only sendMessage running.
monRecord(m, s, eventString, alone) ==
  LET d  == decodeRecord(eventString)
      m1 == IF d.kind = "ok" THEN monEvent(m, s, d.ev) ELSE m
  IN  IF m.mode = "dec"
        THEN [m1 EXCEPT !.seen = IF alone THEN seenNext(@, d.kind) ELSE 0]
        ELSE m1

RECURSIVE monRecords(_, _, _, _)
monRecords(m, s, events, alone) ==
  IF events = <<>> THEN m
  ELSE monRecords(monRecord(m, s, Head(events), alone),
                  processRecord([state |-> s, threw |-> FALSE], Head(events)).state,
                  Tail(events), alone)

\* After a whole readChunk; open is FALSE when an exception ended the loop.
monChunk(m, s, events, alone, open) ==
  LET m1 == monRecords(m, s, events, alone)
  IN  IF open THEN m1
      ELSE CASE m.mode = "dec"  -> [m1 EXCEPT !.aborted = TRUE]
             [] m.mode = "scen" -> [m1 EXCEPT !.phase = "off", !.acts = <<>>]
             [] OTHER -> m1

\* --------------------------------------------------------------- actions
InitMode(mode) ==
  /\ state = initialState
  /\ nextId = 1
  /\ streams = EmptyBag
  /\ mon = monInit(mode)
  /\ svc = svcInit
  /\ wire = wireInit(<<>>)

Init == InitMode("off")

\* The producer and the callers are let to build only a bounded store: the
\* history length plus the longest step list of any turn is at most MaxSize.
RECURSIVE Longest(_)
Longest(ms) ==
  IF ms = <<>> THEN 0
  ELSE LET rest == Longest(Tail(ms))
           here == Len(Head(ms).steps)
       IN  IF here > rest THEN here ELSE rest
Bounded(s) == Len(s.messages) + Longest(<<s.currentMessage>> \o s.messages) <= MaxSize

\* sendMessage(question) up to its first await: the empty-question check,
\* START_STREAMING, and the fetch request sent.
sendMessage(question) ==
  IF trimQuestion(question) = ""
    THEN /\ state' = SET_ERROR(state, EmptyQuestionText)
         /\ Bounded(state')
         /\ mon' = monOther(mon, state, LAMBDA s : SET_ERROR(s, EmptyQuestionText))
         /\ UNCHANGED <<nextId, streams>>
    ELSE /\ nextId <= MaxTurns
         /\ state' = START_STREAMING(state, question, nextId)
         /\ nextId' = nextId + 1
         /\ streams' = streams (+) One(Stream("fetching", <<>>))
         /\ mon' = monSubmit(mon, state, LAMBDA s : START_STREAMING(s, question, nextId))

\* await fetch(...) resolves with response.ok and a body: the reader, the
\* decoder and the empty accumulatedData are set up.
fetchResolved(st) ==
  /\ st.pc = "fetching"
  /\ streams' = (streams (-) One(st)) (+) One(Stream("reading", <<>>))
  /\ mon' = monFetched(mon)
  /\ UNCHANGED <<state, nextId>>

\* await fetch(...) rejects, or resolves with !response.ok or no body: the
\* throw lands in sendMessage's catch.
fetchFailed(st, errorMessage) ==
  /\ st.pc = "fetching"
  /\ state' = outerCatch(state, errorMessage)
  /\ Bounded(state')
  /\ streams' = streams (-) One(st)
  /\ mon' = monFetched(monOther(mon, state, LAMBDA s : outerCatch(s, errorMessage)))
  /\ UNCHANGED nextId

\* await reader.read() resolves with a chunk; the loop body runs on it.
readChunk(st, chunk) ==
  /\ st.pc = "reading"
  /\ LET r      == readLoopStep(state, st.buf, chunk)
         pieces == split(st.buf \o chunk)
     IN  /\ state' = r.state
         /\ Bounded(state')
         /\ streams' = IF r.open
                         THEN (streams (-) One(st)) (+) One(Stream("reading", r.buf))
                         ELSE streams (-) One(st)
         /\ mon' = monChunk(mon, state, SubSeq(pieces, 1, Len(pieces) - 1),
                            BagCardinality(streams) = 1, r.open)
  /\ UNCHANGED nextId

\* await reader.read() resolves with done: break, and the empty finally.
readDone(st) ==
  /\ st.pc = "reading"
  /\ streams' = streams (-) One(st)
  /\ UNCHANGED <<state, nextId, mon>>

\* await reader.read() rejects (the connection dropped).
readFailed(st) ==
  /\ st.pc = "reading"
  /\ state' = outerCatch(state, NetworkErrorText)
  /\ Bounded(state')
  /\ streams' = streams (-) One(st)
  /\ mon' = monOther(mon, state, LAMBDA s : outerCatch(s, NetworkErrorText))
  /\ UNCHANGED nextId

\* ChatProvider.stopStreaming: the registered controller stopStreaming (a
\* console.warn, nothing else), then dispatch STOP_STREAMING.
stopStreaming ==
  /\ state' = STOP_STREAMING(state)
  /\ mon' = monStop(monOther(mon, state, STOP_STREAMING), BagCardinality(streams))
  /\ UNCHANGED <<nextId, streams>>

\* ChatProvider.clearMessages
clearMessages ==
  /\ state' = CLEAR_MESSAGES(state)
  /\ mon' = monOther(mon, state, CLEAR_MESSAGES)
  /\ UNCHANGED <<nextId, streams>>

\* The fetch based controller: the EventSource service is not in use and
\* the response text is whatever chunks the reader gives.
Next ==
  \/ (\E q \in Questions : sendMessage(q)) /\ UNCHANGED <<svc, wire>>
  \/ (\E st \in BagToSet(streams) : fetchResolved(st)) /\ UNCHANGED <<svc, wire>>
  \/ (\E st \in BagToSet(streams), e \in {HttpErrorText} : fetchFailed(st, e))
       /\ UNCHANGED <<svc, wire>>
  \/ (\E st \in BagToSet(streams), c \in Chunks : readChunk(st, c))
       /\ UNCHANGED <<svc, wire>>
  \/ (\E st \in BagToSet(streams) : readDone(st)) /\ UNCHANGED <<svc, wire>>
  \/ (\E st \in BagToSet(streams) : readFailed(st)) /\ UNCHANGED <<svc, wire>>
  \/ stopStreaming /\ UNCHANGED <<svc, wire>>
  \/ clearMessages /\ UNCHANGED <<svc, wire>>

Spec     == Init /\ [][Next]_vars
SpecTurn == InitMode("turn") /\ [][Next]_vars
SpecScen == InitMode("scen") /\ [][Next]_vars
SpecDec  == InitMode("dec") /\ [][Next]_vars
SpecStop == InitMode("stop") /\ [][Next]_vars
SpecAttr == InitMode("attr") /\ [][Next]_vars

\* The transport of a running sendMessage goes on: its fetch settles, and
\* its body delivers a terminal event, ends or fails.
TerminalFrames ==
  {Frame(Json(ev)) : ev \in {e \in Events :
      e.type \in {"agent_finish", "error", "execution_complete"}}}

TransportProgress ==
  /\ \E st \in BagToSet(streams) :
       \/ fetchResolved(st)
       \/ fetchFailed(st, HttpErrorText)
       \/ \E c \in TerminalFrames : readChunk(st, c)
       \/ readDone(st)
       \/ readFailed(st)
  /\ UNCHANGED <<svc, wire>>

SpecLive == Init /\ [][Next]_vars /\ WF_vars(TransportProgress)

\* ------------------------------------- the EventSource based controller
\* The controller of the EventSource build (sendMessage, stopStreaming) on
\* the StreamingService, with the browser's EventSource, the question's
\* POST request and the backoff timers as the environment.
Sys == [state |-> state, svc |-> svc]

Becomes(r) ==
  /\ state' = r.state
  /\ svc' = r.svc
  /\ Bounded(state')
  /\ svc'.stale + (IF svc'.armed THEN 1 ELSE 0) <= MaxPending
  /\ svc'.posts.send + svc'.posts.re <= MaxPending

\* sendMessage(question) as far as the await inside startStream.
sendMessage_es(question) ==
  /\ IF trimQuestion(question) = ""
       THEN /\ Becomes([Sys EXCEPT !.state = SET_ERROR(@, EmptyQuestionText)])
            /\ UNCHANGED nextId
       ELSE /\ nextId <= MaxTurns
            /\ Becomes(startStream(
                 [Sys EXCEPT !.state = START_STREAMING(@, question, nextId),
                             !.svc.retries = 0, !.svc.protoErr = FALSE],
                 question, "send"))
            /\ nextId' = nextId + 1
  /\ UNCHANGED <<streams, mon, wire>>

\* The POST of sendQuestion resolves with response.ok.
postResolved(who) ==
  /\ svc.posts[who] > 0
  /\ Becomes([Sys EXCEPT !.svc.posts[who] = @ - 1])
  /\ UNCHANGED <<nextId, streams, mon, wire>>

\* The POST of sendQuestion rejects or resolves with !response.ok.
postFailed(who, errorMessage) ==
  /\ svc.posts[who] > 0
  /\ Becomes(startStreamFailed([Sys EXCEPT !.svc.posts[who] = @ - 1], who, errorMessage))
  /\ UNCHANGED <<nextId, streams, mon, wire>>

\* The browser opens the connection: eventSource.onopen runs.
esOpen ==
  /\ svc.es = "connecting"
  /\ Becomes(onopen([Sys EXCEPT !.svc.es = "open"]))
  /\ UNCHANGED <<nextId, streams, mon, wire>>

\* A message arrives on the open connection: eventSource.onmessage runs.
esMessage(data) ==
  /\ svc.es = "open"
  /\ Becomes(onmessage(Sys, data))
  /\ UNCHANGED <<nextId, streams, mon, wire>>

\* The connection fails; the browser either retries by itself (readyState
\* CONNECTING) or gives up (CLOSED), and eventSource.onerror runs.
esError(readyState) ==
  /\ svc.es \in {"connecting", "open"}
  /\ Becomes(handleConnectionError([Sys EXCEPT !.svc.es = readyState]))
  /\ UNCHANGED <<nextId, streams, mon, wire>>

\* A backoff timer fires: the one reconnectTimeout refers to, or one that
\* was left unreferenced.
timerFires(which) ==
  /\ IF which = "armed" THEN svc.armed ELSE svc.stale > 0
  /\ Becomes(timerCallback(IF which = "armed"
                             THEN [Sys EXCEPT !.svc.armed = FALSE]
                             ELSE [Sys EXCEPT !.svc.stale = @ - 1]))
  /\ UNCHANGED <<nextId, streams, mon, wire>>

\* ChatProvider.stopStreaming with the controller's stopStreaming
\* registered: closeConnection, currentStepsRef.clear(), STOP_STREAMING.
stopStreaming_es ==
  /\ Becomes([closeConnection(Sys) EXCEPT !.svc.currentStepsRef = {},
                                          !.state = STOP_STREAMING(@)])
  /\ UNCHANGED <<nextId, streams, mon, wire>>

Messages == {Json(ev) : ev \in Events} \cup {JUNK}

NextSvc ==
  \/ \E q \in Questions : sendMessage_es(q)
  \/ \E who \in {"send", "re"} : postResolved(who)
  \/ \E who \in {"send", "re"} : postFailed(who, HttpStatusText)
  \/ esOpen
  \/ \E data \in Messages : esMessage(data)
  \/ \E readyState \in {"connecting", "closed"} : esError(readyState)
  \/ \E which \in {"armed", "stale"} : timerFires(which)
  \/ stopStreaming_es
  \/ clearMessages /\ UNCHANGED <<svc, wire>>

SpecSvc == Init /\ [][NextSvc]_vars

\* The same controller and service with a producer that sends keep-alives
\* and unparsable data only: connection trouble without agent events.
QuietMessages == {Json(Event("heartbeat", 0, None, None, None)), JUNK}

NextQuiet ==
  \/ \E q \in Questions : sendMessage_es(q)
  \/ \E who \in {"send", "re"} : postResolved(who)
  \/ \E who \in {"send", "re"} : postFailed(who, HttpStatusText)
  \/ esOpen
  \/ \E data \in QuietMessages : esMessage(data)
  \/ \E readyState \in {"connecting", "closed"} : esError(readyState)
  \/ \E which \in {"armed", "stale"} : timerFires(which)
  \/ stopStreaming_es
  \/ clearMessages /\ UNCHANGED <<svc, wire>>

SpecQuiet == Init /\ [][NextQuiet]_vars

\* ------------------------------------------ one response, cut into chunks
\* One sendMessage("Q") whose response body is wire.text; reader.read()
\* gives the body in chunks cut at any place.
InitChunk ==
  /\ state = initialState
  /\ nextId = 1
  /\ streams = EmptyBag
  /\ mon = monInit("off")
  /\ svc = svcInit
  /\ wire \in {wireInit(text) : text \in Bodies(MaxRecords)}

\* await reader.read() resolves with the next k tokens of the body.
deliver(st, k) ==
  LET chunk  == SubSeq(wire.text, wire.pos + 1, wire.pos + k)
      pieces == split(st.buf \o chunk)
  IN  /\ readChunk(st, chunk)
      /\ wire' = [wire EXCEPT
                    !.pos = @ + k,
                    !.handed = @ \o handedBy(FALSE, SubSeq(pieces, 1, Len(pieces) - 1)),
                    !.sepCut = @ \/ (chunk[k] = NL /\ wire.pos + k < Len(wire.text)
                                      /\ wire.text[wire.pos + k + 1] = NL
                                      /\ (k = 1 => st.buf # <<>> /\ st.buf[Len(st.buf)] # NL)
                                      /\ (k > 1 => chunk[k - 1] # NL))]
      /\ UNCHANGED svc

NextChunk ==
  \/ /\ nextId = 1
     /\ sendMessage("Q")
     /\ UNCHANGED <<svc, wire>>
  \/ (\E st \in BagToSet(streams) : fetchResolved(st)) /\ UNCHANGED <<svc, wire>>
  \/ \E st \in BagToSet(streams), k \in 1..(Len(wire.text) - wire.pos) : deliver(st, k)
  \/ /\ wire.pos = Len(wire.text)
     /\ \E st \in BagToSet(streams) : readDone(st)
     /\ UNCHANGED <<svc, wire>>

SpecChunk == InitChunk /\ [][NextChunk]_vars

\* ================================================================ claims
ActionEv(n)  == Event("agent_action", n, None, None, None)
ObsEv(n, o)  == Event("agent_observation", n, o, None, None)
FinishEv(a)  == Event("agent_finish", 0, None, a, None)
Current      == state.currentMessage
Final        == {"completed", "error"}
Unique(seq)  == \A i, j \in DOMAIN seq : i # j => seq[i] # seq[j]
Numbers(steps) == [i \in DOMAIN steps |-> steps[i].step_number]
Completed(turn, a) == [turn EXCEPT !.answer = a, !.status = "completed"]
Reading      == \E st \in BagToSet(streams) : st.pc = "reading"

\* C1 (as stated): agent_finish applied while a turn is current leaves
\* currentMessage absent and messages grown by exactly that one completed turn.
C1_Original ==
  [][\A st \in BagToSet(streams), a \in Answers :
       (Current # NoMessage /\ readChunk(st, Frame(Json(FinishEv(a)))))
         => /\ state'.currentMessage = NoMessage
            /\ state'.messages = Append(state.messages, Completed(Current, a))
            /\ Len(state'.messages) = Len(state.messages) + 1]_vars

\* C1 (amended): agent_finish applied while a turn is current appends exactly
\* that one turn, completed and with the answer set, to messages (length + 1),
\* clears isStreaming, and leaves the completed turn as currentMessage; the
\* top-level error is untouched.
C1_FinishAppendsOnce ==
  \A a \in Answers :
    Current # NoMessage =>
      LET s2 == handleStreamEvent(state, FinishEv(a))
      IN  /\ s2.currentMessage = Completed(Current, a)
          /\ s2.messages = Append(state.messages, Completed(Current, a))
          /\ Len(s2.messages) = Len(state.messages) + 1
          /\ ~s2.isStreaming
          /\ s2.error = state.error

\* C1 witness: agent_finish has just completed a turn on top of a history
\* that was not empty.
C1_Witness ==
  /\ Current # NoMessage /\ Current.status = "completed" /\ Current.answer # None
  /\ Len(state.messages) >= 2
  /\ state.messages[Len(state.messages)] = Current
  /\ ~state.isStreaming

\* C2 (as stated): stopStreaming while a turn is in flight leaves isStreaming
\* false, currentMessage absent and messages unchanged.
C2_Claim ==
  [][(stopStreaming /\ state.isStreaming /\ Current # NoMessage)
       => /\ ~state'.isStreaming
          /\ state'.currentMessage = NoMessage
          /\ state'.messages = state.messages]_vars

\* C3 (as stated): sendMessage while isStreaming is rejected: currentMessage
\* and error stay as they were and no second request is opened.
C3_Claim ==
  [][\A q \in Questions :
       (state.isStreaming /\ sendMessage(q))
         => /\ state'.currentMessage = state.currentMessage
            /\ state'.error = state.error
            /\ streams' = streams]_vars

\* C4 (as stated): a turn holds at most one step per step_number, in
\* currentMessage and in every turn of messages.
C4_Claim ==
  \A turn \in {Current} \cup Range(state.messages) : Unique(Numbers(turn.steps))

\* C5 (as stated): after agent_action / agent_observation events with unique
\* step numbers, in any order, the step list is as long as the number of
\* actions applied and a step is observed iff an observation with its number
\* was delivered.
C5_Original ==
  (Current # NoMessage /\ state.isStreaming /\ Unique(mon.acts)) =>
    /\ Len(Current.steps) = Len(mon.acts)
    /\ \A i \in DOMAIN Current.steps :
         (Current.steps[i].observation # None)
           <=> (Current.steps[i].step_number \in mon.obsd)

\* C5 (amended): ... a step is observed iff an observation with its number
\* was delivered after the step's own agent_action.
C5_ObservedIffDeliveredAfterAction ==
  (Current # NoMessage /\ Unique(mon.acts)) =>
    /\ Len(Current.steps) = Len(mon.acts)
    /\ Numbers(Current.steps) = mon.acts
    /\ \A i \in DOMAIN Current.steps :
         (Current.steps[i].observation # None)
           <=> (Current.steps[i].step_number \in mon.obsAfter)

\* C5 witness: two actions with different numbers, one observed afterwards,
\* the other one's observation delivered only before its action.
C5_Witness ==
  /\ Current # NoMessage /\ Unique(mon.acts) /\ Len(mon.acts) = 2
  /\ mon.obsAfter # {} /\ mon.obsd \ mon.obsAfter # {}
  /\ mon.obsd \subseteq Range(mon.acts)

\* C6: applying the same agent_observation twice gives the state that applying
\* it once gives, from every reachable ChatState.
C6_ObservationIdempotent ==
  \A n \in StepNumbers, o \in Obs :
    LET s1 == handleStreamEvent(state, ObsEv(n, o))
    IN  handleStreamEvent(s1, ObsEv(n, o)) = s1

\* C6 witness: an observation has been applied to one of two steps.
C6_Witness ==
  /\ Len(Current.steps) = 2
  /\ \E i, j \in DOMAIN Current.steps :
       Current.steps[i].observation # None /\ Current.steps[j].observation = None

\* C7: malformed records are skipped and the stream continues: the store is
\* what applying only the well-formed records gives, and no read loop was
\* ended by a malformed record.
C7_SkipAndContinue == mon.shadow = state /\ ~mon.aborted

\* C7 witness: one call has decoded valid, malformed, valid in a row and is
\* still reading, with its turn current.
C7_Witness == mon.seen = 3 /\ Reading /\ Current # NoMessage

\* C8: after submit and the stream execution_start, (agent_action
\* agent_observation)+, agent_finish, execution_complete, messages has gained
\* exactly one turn: the submitted one, completed, answered, every step
\* observed; currentMessage is absent and isStreaming false.
C8_HappyPath ==
  mon.phase = "done" =>
    /\ Current = NoMessage
    /\ ~state.isStreaming
    /\ Len(state.messages) = mon.baseLen + 1
    /\ LET turn == state.messages[Len(state.messages)]
       IN  /\ turn.id = nextId - 1
           /\ turn.status = "completed"
           /\ turn.answer # None
           /\ turn.steps # <<>>
           /\ Numbers(turn.steps) = mon.acts
           /\ \A i \in DOMAIN turn.steps : turn.steps[i].observation # None

\* C8 witness: the scenario has run to its end.
C8_Witness == mon.phase = "done"

\* C9 (as stated): isStreaming is true iff currentMessage is present with
\* status thinking or processing.
C9_Claim ==
  state.isStreaming <=> (Current # NoMessage /\ Current.status \in {"thinking", "processing"})

\* C10 (as stated): once the current turn is completed or error, no stream
\* event (agent_action, agent_observation, agent_finish, error,
\* execution_summary, execution_complete) changes it, as currentMessage or
\* in messages.
C10_Claim ==
  [][\A st \in BagToSet(streams), ev \in Events :
       (Current.status \in Final /\ readChunk(st, Frame(Json(ev)))
          /\ ev.type \in {"agent_action", "agent_observation", "agent_finish", "error",
                         "execution_summary", "execution_complete"})
         => /\ state'.currentMessage \in {Current, NoMessage}
            /\ SubSeq(state'.messages, 1, Len(state.messages)) = state.messages]_vars

IsPrefix(a, b) == Len(a) <= Len(b) /\ SubSeq(b, 1, Len(a)) = a
Ids(ms) == {ms[i].id : i \in DOMAIN ms}

\* C11 (as stated): every operation of the store, clearMessages included,
\* leaves the messages it found as a prefix of the messages it leaves.
C11_Claim == [][IsPrefix(state.messages, state'.messages)]_vars

\* C11 (amended): every operation other than clearMessages leaves the
\* messages it found as a prefix of the messages it leaves; clearMessages
\* empties messages.
C11_AppendOnlyExceptClear ==
  [][\/ clearMessages /\ state'.messages = <<>>
     \/ IsPrefix(state.messages, state'.messages)]_vars

\* C11 witness: two turns have been appended, one after the other.
C11_Witness ==
  /\ Len(state.messages) >= 2
  /\ state.messages[1].id # state.messages[2].id

\* C12 (as stated): once stopStreaming has been called on a running request,
\* no record of that request's response changes currentMessage, messages or
\* error.
C12_Claim ==
  [][\A st \in BagToSet(streams), c \in Chunks :
       (mon.stopped /\ readChunk(st, c))
         => /\ state'.currentMessage = state.currentMessage
            /\ state'.messages = state.messages
            /\ state'.error = state.error]_vars

\* C19: sendMessage with an empty or whitespace-only question reports the
\* error at once and touches no transport state: no request is opened, no
\* message id is used, no turn is created (the current turn keeps its id and
\* messages holds no id it did not hold or that was not current), and the
\* running requests are left exactly as they were.
C19_EmptyQuestionLeavesTransport ==
  [][\A q \in {"", " "} :
       sendMessage(q)
         => /\ streams' = streams
            /\ nextId' = nextId
            /\ state'.error = EmptyQuestionText
            /\ state'.currentMessage.id = Current.id
            /\ Ids(state'.messages) \subseteq Ids(state.messages) \cup {Current.id}]_vars

\* C19 witness: an empty question was submitted while a request of the
\* turn in flight was being read, and the request is still being read.
C19_Witness ==
  /\ state.error = EmptyQuestionText
  /\ Current # NoMessage /\ Current.error_message = EmptyQuestionText
  /\ Reading

\* The events of the well-formed records among records, in order.
RECURSIVE WellFormed(_)
WellFormed(records) ==
  IF records = <<>> THEN <<>>
  ELSE LET d == decodeRecord(Head(records))
       IN  (IF d.kind = "ok" THEN <<d.ev>> ELSE <<>>) \o WellFormed(Tail(records))

RECURSIVE ApplyAll(_, _)
ApplyAll(s, events) ==
  IF events = <<>> THEN s ELSE ApplyAll(handleStreamEvent(s, Head(events)), Tail(events))

\* C20: however the body is cut into chunks, the events handed to the handler
\* so far are the well-formed records among the complete records of the text
\* delivered so far, each once and in wire order; the store is what applying
\* them in that order gives; and the text after the last separator (a record
\* whose blank line has not arrived) is the read loop's buffer.
C20_ChunkingIndependent ==
  LET delivered == SubSeq(wire.text, 1, wire.pos)
      pieces    == split(delivered)
  IN  /\ wire.handed = WellFormed(SubSeq(pieces, 1, Len(pieces) - 1))
      /\ \A st \in BagToSet(streams) :
           st.pc = "reading" => st.buf = pieces[Len(pieces)]
      /\ nextId > 1 =>
           state = ApplyAll(START_STREAMING(initialState, "Q", 1), wire.handed)

\* C20 witness: a whole body of three records, two of them well-formed, has
\* been delivered, and one chunk ended between the two newlines of a
\* separator.
C20_Witness ==
  /\ wire.pos = Len(wire.text) /\ Len(split(wire.text)) = 4
  /\ Len(wire.handed) >= 2
  /\ wire.sepCut
  /\ Reading

InFlight == {"thinking", "processing"}
Posts(v) == v.posts.send + v.posts.re
Timers(v) == v.stale + (IF v.armed THEN 1 ELSE 0)

\* C13 (as stated): when stopStreaming returns the connection is closed, no
\* backoff timer is pending any more and the service holds no question to
\* reconnect with.
C13_Claim ==
  [][stopStreaming_es
       => /\ svc'.es = "none"
          /\ Timers(svc') = 0
          /\ svc'.currentQuestion = None]_vars

\* C14 (as stated): the reconnection attempts scheduled for one turn never
\* exceed maxReconnectAttempts.
C14_Claim == svc.retries <= maxReconnectAttempts

\* C15: the delay given to the timer of reconnection attempt n is 1000, 2000
\* and 4000 ms for n = 1, 2, 3, that is min(1000 * 2^(n-1), 10000); the
\* delays do not decrease with n and none exceeds the cap.
C15_BackoffDelays ==
  [][\A readyState \in {"connecting", "closed"} :
       (esError(readyState) /\ svc'.reconnectAttempts = svc.reconnectAttempts + 1)
         => LET n == svc'.reconnectAttempts
            IN  /\ n \in 1..maxReconnectAttempts
                /\ svc'.delay = <<1000, 2000, 4000>>[n]
                /\ svc'.delay = Min(BaseDelayMs * 2 ^ (n - 1), CapDelayMs)
                /\ svc'.delay <= CapDelayMs
                /\ n > 1 => svc'.delay >= backoffDelay(n - 1)]_vars

\* C15 witness: the timer of the third attempt in a row is pending.
C15_Witness ==
  /\ svc.reconnectAttempts = maxReconnectAttempts
  /\ svc.armed /\ svc.delay = 4000

\* C16 (as stated): a message whose payload fails to parse changes neither
\* error, nor the current turn, nor messages, nor isStreaming.
C16_Claim ==
  [][(state.isStreaming /\ Current # NoMessage /\ esMessage(JUNK)) => state' = state]_vars

\* C17 (as stated): a transport failure (the connection errors, the request
\* fails) turns a turn in flight into an error turn only when
\* maxReconnectAttempts reconnection attempts have been used up.
C17_Claim ==
  [][\A who \in {"send", "re"}, readyState \in {"connecting", "closed"} :
       ((postFailed(who, HttpStatusText) \/ esError(readyState))
          /\ state.isStreaming /\ Current.status \in InFlight
          /\ state'.currentMessage.status = "error")
         => svc.reconnectAttempts = maxReconnectAttempts]_vars

\* C18 (as stated): once an error event of the producer has arrived for the
\* turn, no reconnection timer is set and the question is not sent again.
C18_Claim ==
  [][(svc.protoErr /\ svc'.protoErr)
       => /\ Timers(svc') <= Timers(svc)
          /\ Posts(svc') <= Posts(svc)]_vars

ErrorEv(m)  == Event("error", 0, None, None, m)
CompleteEv  == Event("execution_complete", 0, None, None, None)
Errored(turn, m) == [turn EXCEPT !.status = "error", !.error_message = m]
Last(seq)   == seq[Len(seq)]

\* C21 (as stated): an error event applied while a turn is in flight leaves
\* currentMessage absent and messages grown by that turn with status error.
C21_Original ==
  [][\A st \in BagToSet(streams) :
       (Current.status \in InFlight /\ readChunk(st, Frame(Json(ErrorEv("boom")))))
         => /\ state'.currentMessage = NoMessage
            /\ state'.messages = Append(state.messages, Errored(Current, "boom"))]_vars

\* C21 (amended): an error event applied while a turn is in flight sets the
\* turn's status to error, attaches error_message, sets the top-level error,
\* appends the turn to messages and clears isStreaming; currentMessage is not
\* cleared: it holds the same error turn.
C21_ErrorFinalizes ==
  Current.status \in InFlight =>
    LET s2 == handleStreamEvent(state, ErrorEv("boom"))
    IN  /\ s2.currentMessage = Errored(Current, "boom")
        /\ s2.messages = Append(state.messages, Errored(Current, "boom"))
        /\ s2.error = "boom"
        /\ ~s2.isStreaming

\* C21 witness: an error event has just finalized the second turn, on top
\* of a history that holds the first.
C21_Witness ==
  /\ Current.status = "error" /\ Current.error_message = "boom"
  /\ state.error = "boom" /\ ~state.isStreaming
  /\ Len(state.messages) = 2 /\ Last(state.messages) = Current
  /\ state.messages[1].id # Current.id

\* C22 (as stated): with no currentMessage, an error event and an
\* agent_finish event both leave the ChatState as it was.
C22_Original ==
  [][\A st \in BagToSet(streams), ev \in {ErrorEv("boom")} \cup {FinishEv(a) : a \in Answers} :
       (Current = NoMessage /\ readChunk(st, Frame(Json(ev)))) => state' = state]_vars

\* C22 (amended): with no currentMessage, agent_finish leaves the ChatState
\* as it was; an error event sets the top-level error and clears isStreaming
\* and changes neither messages nor currentMessage.
C22_NoTurnNoTurnChange ==
  Current = NoMessage =>
    /\ \A a \in Answers : handleStreamEvent(state, FinishEv(a)) = state
    /\ handleStreamEvent(state, ErrorEv("boom"))
         = [state EXCEPT !.error = "boom", !.isStreaming = FALSE]

\* C22 witness: an error event has been applied when there was no
\* currentMessage: the error is set and no turn was finalized with it.
C22_Witness ==
  /\ Current = NoMessage /\ state.error = "boom"
  /\ state.messages = <<>> /\ nextId > 1

\* C23: execution_complete changes no turn's status: messages is left as it
\* was and the current turn is cleared or kept with the status it had, in
\* every reachable state.
C23_CompleteKeepsStatus ==
  LET s2 == handleStreamEvent(state, CompleteEv)
  IN  /\ s2.messages = state.messages
      /\ s2.currentMessage = NoMessage \/ s2.currentMessage.status = Current.status

\* C23 witness: execution_complete was applied to the second turn when
\* neither agent_finish nor error had finalized it (the first turn is in
\* messages, the second is nowhere).
C23_Witness ==
  /\ Current = NoMessage /\ nextId = 3
  /\ state.messages # <<>> /\ Ids(state.messages) = {1}

\* C24: an agent_observation whose step_number matches no step of the current
\* turn leaves the ChatState as it was; otherwise the steps with that number
\* get the observation and nothing else changes: every other step, the order
\* and number of steps, the turn's other fields, messages, isStreaming, error.
C24_ObservationFrame ==
  \A n \in StepNumbers, o \in Obs :
    LET s2 == handleStreamEvent(state, ObsEv(n, o))
        old == Current.steps
        new == s2.currentMessage.steps
    IN  /\ (\A i \in DOMAIN old : old[i].step_number # n) => s2 = state
        /\ Len(new) = Len(old)
        /\ \A i \in DOMAIN old :
             new[i] = IF old[i].step_number = n
                        THEN [old[i] EXCEPT !.observation = o] ELSE old[i]
        /\ s2 = [state EXCEPT !.currentMessage.steps = new]

\* C24 witness: of the two steps of the turn in flight, with different
\* numbers, the second has its observation and the first has none.
C24_Witness ==
  /\ Current.status = "processing" /\ Len(Current.steps) = 2
  /\ Current.steps[1].step_number # Current.steps[2].step_number
  /\ Current.steps[1].observation = None /\ Current.steps[2].observation # None

Backwards(from, to) ==
  \/ from \in Final /\ to \in InFlight
  \/ from = "processing" /\ to = "thinking"

\* C25 (as stated): submit creates the turn in thinking with no steps, clears
\* the top-level error and leaves messages as it was; an event moves the
\* current turn to processing only if it is an agent_action, to completed only
\* if it is an agent_finish, to error only if it is an error event, and never
\* backwards (from completed or error to thinking or processing, from
\* processing to thinking).
C25_Claim ==
  [][/\ \A q \in Questions :
          (trimQuestion(q) # "" /\ sendMessage(q))
            => /\ state'.currentMessage.status = "thinking"
               /\ state'.currentMessage.steps = <<>>
               /\ state'.currentMessage.id \notin Ids(state.messages) \cup {Current.id}
               /\ state'.error = None
               /\ state'.messages = state.messages
     /\ \A st \in BagToSet(streams), ev \in Events :
          (Current # NoMessage /\ readChunk(st, Frame(Json(ev)))
             /\ state'.currentMessage # NoMessage
             /\ state'.currentMessage.status # Current.status)
            => /\ state'.currentMessage.status = "processing" => ev.type = "agent_action"
               /\ state'.currentMessage.status = "completed" => ev.type = "agent_finish"
               /\ state'.currentMessage.status = "error" => ev.type = "error"
               /\ ~Backwards(Current.status, state'.currentMessage.status)]_vars

\* C26 (as stated): no two entries of messages have the same id.
C26_Claim == Unique([i \in DOMAIN state.messages |-> state.messages[i].id])

\* C28 (as stated): when an execution_complete event clears currentMessage,
\* the turn that was current is in messages, completed or error.
C28_Claim ==
  [][\A st \in BagToSet(streams) :
       (Current # NoMessage /\ readChunk(st, Frame(Json(CompleteEv)))
          /\ state'.currentMessage = NoMessage)
         => \E i \in DOMAIN state.messages :
              /\ state.messages[i].id = Current.id
              /\ state.messages[i].status \in Final]_vars

\* C29 (as stated): sendMessage with an empty or whitespace-only question
\* changes the top-level error and nothing else of the ChatState.
C29_Claim ==
  [][\A q \in {"", " "} :
       sendMessage(q) => state' = [state EXCEPT !.error = EmptyQuestionText]]_vars
\* C27: under a transport that goes on, whenever isStreaming is true it
\* eventually becomes false, so every submitted turn leaves the in-flight
\* state, also when the body ends without a terminal event.
C27_Claim == state.isStreaming ~> ~state.isStreaming

\* C30: while the fetch of the latest accepted sendMessage has not settled,
\* no chunk read from a response changes the turn in flight: the records of
\* an earlier sendMessage's response are not applied to a later turn.
C30_Claim ==
  [][\A st \in BagToSet(streams), c \in Chunks :
       (mon.ownPending /\ readChunk(st, c))
         => state'.currentMessage = state.currentMessage]_vars

====
